---- MODULE Spec2Model ----
(***************************************************************************)
(* A model of the three model-creation scripts of the repository           *)
(* (create_model.py, create_small_model.py, create_tiny_model.py): the     *)
(* character encoders, the synthetic example generators, the dataset       *)
(* builders and the run of main() from directory creation to the written   *)
(* artifact.                                                               *)
(*                                                                         *)
(* A Python str is modelled as a sequence of characters; a character is a  *)
(* one-character TLA+ string ("A", "\n") or, outside ASCII, the name of    *)
(* its code point ("U+20AC" is the euro sign).  ord gives the code point.  *)
(***************************************************************************)
EXTENDS Integers, Sequences, FiniteSets, TLC

VARIABLES
  \* one call of an encoder function (specification SpecEncoder)
  callee,          \* the encoder function that is called
  arg_text,        \* its first argument
  arg_max_length,  \* its max_length parameter as bound in the call
  arg_defaulted,   \* TRUE when the call omitted max_length (default used)
  call_pc,         \* "call" before the call, "returned" after it
  ret,             \* the returned list (<<>> before the return)
  \* one run of main() of one script (specification Spec)
  variant,            \* the script that runs: "full", "small" or "tiny"
  pc,                 \* the step main() is about to take
  dir_exists,         \* whether app/src/main/assets/models exists
  artifact,           \* the content of contact_detection_model.tflite
  artifact_before,    \* its content when the process started
  training_examples,  \* create_training_data's list of examples
  X_train,            \* the input array (<<>> while unbound)
  y_train,            \* the label array (<<>> while unbound)
  model,              \* the Keras model
  tflite_model,       \* the converted model's bytes
  stdout,             \* what the run has printed, in order
  steps,              \* the steps completed so far, in order
  failed_at           \* the step that raised, "none" while none has

enc_vars == <<callee, arg_text, arg_max_length, arg_defaulted, call_pc, ret>>

run_vars == <<variant, pc, dir_exists, artifact, artifact_before,
              training_examples, X_train, y_train, model, tflite_model,
              stdout, steps, failed_at>>

vars == <<enc_vars, run_vars>>

----------------------------------------------------------------------------
(* Characters and Python builtins *)

Alphabet ==
  { "\n", " ", ".", "0", "1", "2", "3", "4", "5", "6", "7", "8", 
    "9", ":", "A", "B", "C", "D", "E", "G", "H", "J", "K", "L", 
    "M", "O", "P", "Q", "R", "S", "T", "W", "a", "c", "d", "e", 
    "f", "g", "h", "i", "k", "l", "m", "n", "o", "p", "r", "s", 
    "t", "u", "v", "w", "x", "y", "z", "U+007F", "U+0080", "U+00FF", "U+0100", "U+20AC", 
    "U+7530" }

ord ==
  [ c \in Alphabet |->
      CASE c = "\n" -> 10
        [] c = " " -> 32
        [] c = "." -> 46
        [] c = "0" -> 48
        [] c = "1" -> 49
        [] c = "2" -> 50
        [] c = "3" -> 51
        [] c = "4" -> 52
        [] c = "5" -> 53
        [] c = "6" -> 54
        [] c = "7" -> 55
        [] c = "8" -> 56
        [] c = "9" -> 57
        [] c = ":" -> 58
        [] c = "A" -> 65
        [] c = "B" -> 66
        [] c = "C" -> 67
        [] c = "D" -> 68
        [] c = "E" -> 69
        [] c = "G" -> 71
        [] c = "H" -> 72
        [] c = "J" -> 74
        [] c = "K" -> 75
        [] c = "L" -> 76
        [] c = "M" -> 77
        [] c = "O" -> 79
        [] c = "P" -> 80
        [] c = "Q" -> 81
        [] c = "R" -> 82
        [] c = "S" -> 83
        [] c = "T" -> 84
        [] c = "W" -> 87
        [] c = "a" -> 97
        [] c = "c" -> 99
        [] c = "d" -> 100
        [] c = "e" -> 101
        [] c = "f" -> 102
        [] c = "g" -> 103
        [] c = "h" -> 104
        [] c = "i" -> 105
        [] c = "k" -> 107
        [] c = "l" -> 108
        [] c = "m" -> 109
        [] c = "n" -> 110
        [] c = "o" -> 111
        [] c = "p" -> 112
        [] c = "r" -> 114
        [] c = "s" -> 115
        [] c = "t" -> 116
        [] c = "u" -> 117
        [] c = "v" -> 118
        [] c = "w" -> 119
        [] c = "x" -> 120
        [] c = "y" -> 121
        [] c = "z" -> 122
        [] c = "U+007F" -> 127
        [] c = "U+0080" -> 128
        [] c = "U+00FF" -> 255
        [] c = "U+0100" -> 256
        [] c = "U+20AC" -> 8364
        [] c = "U+7530" -> 30000
  ]

Min2(a, b) == IF a < b THEN a ELSE b

Max2(a, b) == IF a > b THEN a ELSE b

\* text[:n] of a Python sequence: the first n items for n >= 0 (all of them
\* when n exceeds the length), all but the last -n items for n < 0.
\* the slice taken one item too far, text[:max_length + 1]
PySliceTo_one_more(seq, n) ==
  IF n >= 0
    THEN SubSeq(seq, 1, Min2(n + 1, Len(seq)))
    ELSE SubSeq(seq, 1, Max2(Len(seq) + n + 1, 0))

PySliceTo(seq, n) ==
  IF n >= 0
    THEN SubSeq(seq, 1, Min2(n, Len(seq)))
    ELSE SubSeq(seq, 1, Max2(Len(seq) + n, 0))

\* the padding put in front, char_indices.insert(0, 0)
PadLoop_in_front(char_indices, max_length) ==
  IF Len(char_indices) < max_length
    THEN [i \in 1..(max_length - Len(char_indices)) |-> 0] \o char_indices
    ELSE char_indices

\* "while len(char_indices) < max_length: char_indices.append(0)"
PadLoop(char_indices, max_length) ==
  IF Len(char_indices) < max_length
    THEN char_indices \o [i \in 1..(max_length - Len(char_indices)) |-> 0]
    ELSE char_indices

\* the loop without its min(): char_indices.append(ord(char))
EncodeLoop_unclamped(chars, cap) ==
  [i \in 1..Len(chars) |-> ord[chars[i]]]

\* "for char in <chars>: char_indices.append(min(ord(char), cap))"
EncodeLoop(chars, cap) ==
  [i \in 1..Len(chars) |-> Min2(ord[chars[i]], cap)]

----------------------------------------------------------------------------
(* The encoders *)

\* default of the max_length parameter of the input-text encoders
DEFAULT_TEXT_MAX_LENGTH == 200

\* default of the max_length parameter of the contact-name encoders
DEFAULT_NAME_MAX_LENGTH == 50

\* create_model.py
preprocess_text(text, max_length) ==
  PadLoop(EncodeLoop(PySliceTo(text, max_length), 29999), max_length)

\* the label encoder with the small script's ceiling, min(ord(char), 255)
preprocess_contact_name_small_ceiling(name, max_length) ==
  PadLoop(EncodeLoop(PySliceTo(name, max_length), 255), max_length)

preprocess_contact_name(name, max_length) ==
  PadLoop(EncodeLoop(PySliceTo(name, max_length), 29999), max_length)

\* create_small_model.py

\* the loop over the whole text, "for char in text:"
preprocess_text_simple_unsliced(text, max_length) ==
  PadLoop(EncodeLoop(text, 255), max_length)

preprocess_text_simple(text, max_length) ==
  PadLoop(EncodeLoop(PySliceTo(text, max_length), 255), max_length)

\* the ceiling taken as the vocabulary size, min(ord(char), 256)
preprocess_contact_name_simple_vocab_size(name, max_length) ==
  PadLoop(EncodeLoop(PySliceTo(name, max_length), 256), max_length)

preprocess_contact_name_simple(name, max_length) ==
  PadLoop(EncodeLoop(PySliceTo(name, max_length), 255), max_length)

\* create_tiny_model.py
preprocess_text_tiny(text, max_length) ==
  PadLoop(EncodeLoop(PySliceTo(text, max_length), 127), max_length)

preprocess_contact_name_tiny(name, max_length) ==
  PadLoop(EncodeLoop(PySliceTo(name, max_length), 127), max_length)

----------------------------------------------------------------------------
(* The random source *)

\* np.random is an external collaborator: what its calls return is an input
\* of the run.  A stream is the sequence of raw outcomes of the successive
\* calls, draw number k (from 0) giving seed + stride * k; a call reduces its
\* raw outcome to its own range.  Under the streams below every name, every
\* surname, every status and every name-surname pair occurs at every
\* iteration of the loop, and every hour and every minute at some iteration;
\* a stream of stride 0 repeats one example.

\* largest seed of a modelled outcome stream
MaxSeed == 9

\* largest stride of a modelled outcome stream
MaxStride == 9

Streams == [seed : 0..MaxSeed, stride : 0..MaxStride]

Draw(stream, k) == stream.seed + stream.stride * k

\* np.random.choice(pool): one element of the list
choice(pool, raw) == pool[(raw % Len(pool)) + 1]

\* np.random.randint(low, high): an integer of [low, high)
randint(low, high, raw) == low + (raw % (high - low))

----------------------------------------------------------------------------
(* String formatting *)

Digits == <<"0", "1", "2", "3", "4", "5", "6", "7", "8", "9">>

\* f"{n}" for an integer n >= 0: its decimal digits
RECURSIVE FormatInt(_)
FormatInt(n) ==
  IF n < 10 THEN <<Digits[n + 1]>>
            ELSE FormatInt(n \div 10) \o <<Digits[(n % 10) + 1]>>

\* f"{n:02d}" for an integer n >= 0: zero-padded on the left to two digits
Format02d(n) ==
  LET digits == FormatInt(n)
  IN  IF Len(digits) < 2 THEN <<"0">> \o digits ELSE digits

----------------------------------------------------------------------------
(* The example generators.  An example is <<text, contact_name>>. *)

\* create_model.py:60-71
training_examples_full ==
  <<
    \* ('John Smith\nOnline\nLast seen today at 2:30 PM', 'John Smith')
    << <<"J", "o", "h", "n", " ", "S", "m", "i", "t", "h", "\n", "O", "n", "l", "i", "n", "e", "\n", "L", "a", "s", "t", " ", "s", "e", "e", "n", " ", "t", "o", "d", "a", "y", " ", "a", "t", " ", "2", ":", "3", "0", " ", "P", "M">>,
       <<"J", "o", "h", "n", " ", "S", "m", "i", "t", "h">> >>,
    \* ('Maria Garcia\nTyping...\nLast seen yesterday', 'Maria Garcia')
    << <<"M", "a", "r", "i", "a", " ", "G", "a", "r", "c", "i", "a", "\n", "T", "y", "p", "i", "n", "g", ".", ".", ".", "\n", "L", "a", "s", "t", " ", "s", "e", "e", "n", " ", "y", "e", "s", "t", "e", "r", "d", "a", "y">>,
       <<"M", "a", "r", "i", "a", " ", "G", "a", "r", "c", "i", "a">> >>,
    \* ('Dr. Johnson\nOnline\nLast seen 5 minutes ago', 'Dr. Johnson')
    << <<"D", "r", ".", " ", "J", "o", "h", "n", "s", "o", "n", "\n", "O", "n", "l", "i", "n", "e", "\n", "L", "a", "s", "t", " ", "s", "e", "e", "n", " ", "5", " ", "m", "i", "n", "u", "t", "e", "s", " ", "a", "g", "o">>,
       <<"D", "r", ".", " ", "J", "o", "h", "n", "s", "o", "n">> >>,
    \* ('Sarah Wilson\nLast seen today at 10:15 AM', 'Sarah Wilson')
    << <<"S", "a", "r", "a", "h", " ", "W", "i", "l", "s", "o", "n", "\n", "L", "a", "s", "t", " ", "s", "e", "e", "n", " ", "t", "o", "d", "a", "y", " ", "a", "t", " ", "1", "0", ":", "1", "5", " ", "A", "M">>,
       <<"S", "a", "r", "a", "h", " ", "W", "i", "l", "s", "o", "n">> >>,
    \* ('Mike Chen\nOnline\nLast seen 1 hour ago', 'Mike Chen')
    << <<"M", "i", "k", "e", " ", "C", "h", "e", "n", "\n", "O", "n", "l", "i", "n", "e", "\n", "L", "a", "s", "t", " ", "s", "e", "e", "n", " ", "1", " ", "h", "o", "u", "r", " ", "a", "g", "o">>,
       <<"M", "i", "k", "e", " ", "C", "h", "e", "n">> >>,
    \* ('Anna Rodriguez\nLast seen yesterday at 8:45 PM', 'Anna Rodriguez')
    << <<"A", "n", "n", "a", " ", "R", "o", "d", "r", "i", "g", "u", "e", "z", "\n", "L", "a", "s", "t", " ", "s", "e", "e", "n", " ", "y", "e", "s", "t", "e", "r", "d", "a", "y", " ", "a", "t", " ", "8", ":", "4", "5", " ", "P", "M">>,
       <<"A", "n", "n", "a", " ", "R", "o", "d", "r", "i", "g", "u", "e", "z">> >>,
    \* ('Prof. Brown\nOnline\nLast seen 30 minutes ago', 'Prof. Brown')
    << <<"P", "r", "o", "f", ".", " ", "B", "r", "o", "w", "n", "\n", "O", "n", "l", "i", "n", "e", "\n", "L", "a", "s", "t", " ", "s", "e", "e", "n", " ", "3", "0", " ", "m", "i", "n", "u", "t", "e", "s", " ", "a", "g", "o">>,
       <<"P", "r", "o", "f", ".", " ", "B", "r", "o", "w", "n">> >>,
    \* ('Lisa Johnson\nTyping...\nLast seen today', 'Lisa Johnson')
    << <<"L", "i", "s", "a", " ", "J", "o", "h", "n", "s", "o", "n", "\n", "T", "y", "p", "i", "n", "g", ".", ".", ".", "\n", "L", "a", "s", "t", " ", "s", "e", "e", "n", " ", "t", "o", "d", "a", "y">>,
       <<"L", "i", "s", "a", " ", "J", "o", "h", "n", "s", "o", "n">> >>,
    \* ('David Kim\nLast seen 2 hours ago', 'David Kim')
    << <<"D", "a", "v", "i", "d", " ", "K", "i", "m", "\n", "L", "a", "s", "t", " ", "s", "e", "e", "n", " ", "2", " ", "h", "o", "u", "r", "s", " ", "a", "g", "o">>,
       <<"D", "a", "v", "i", "d", " ", "K", "i", "m">> >>,
    \* ('Emma Davis\nOnline\nLast seen 15 minutes ago', 'Emma Davis')
    << <<"E", "m", "m", "a", " ", "D", "a", "v", "i", "s", "\n", "O", "n", "l", "i", "n", "e", "\n", "L", "a", "s", "t", " ", "s", "e", "e", "n", " ", "1", "5", " ", "m", "i", "n", "u", "t", "e", "s", " ", "a", "g", "o">>,
       <<"E", "m", "m", "a", " ", "D", "a", "v", "i", "s">> >>
  >>

\* create_model.py:74  ['Alex', 'Chris', 'Taylor', 'Jordan', 'Casey', 'Morgan', 'Riley', 'Avery', 'Quinn', 'Blake']
names_full ==
  <<
    <<"A", "l", "e", "x">>,
    <<"C", "h", "r", "i", "s">>,
    <<"T", "a", "y", "l", "o", "r">>,
    <<"J", "o", "r", "d", "a", "n">>,
    <<"C", "a", "s", "e", "y">>,
    <<"M", "o", "r", "g", "a", "n">>,
    <<"R", "i", "l", "e", "y">>,
    <<"A", "v", "e", "r", "y">>,
    <<"Q", "u", "i", "n", "n">>,
    <<"B", "l", "a", "k", "e">>
  >>

\* create_model.py:75  ['Anderson', 'Taylor', 'Thomas', 'Jackson', 'White', 'Harris', 'Martin', 'Thompson', 'Garcia', 'Martinez']
surnames_full ==
  <<
    <<"A", "n", "d", "e", "r", "s", "o", "n">>,
    <<"T", "a", "y", "l", "o", "r">>,
    <<"T", "h", "o", "m", "a", "s">>,
    <<"J", "a", "c", "k", "s", "o", "n">>,
    <<"W", "h", "i", "t", "e">>,
    <<"H", "a", "r", "r", "i", "s">>,
    <<"M", "a", "r", "t", "i", "n">>,
    <<"T", "h", "o", "m", "p", "s", "o", "n">>,
    <<"G", "a", "r", "c", "i", "a">>,
    <<"M", "a", "r", "t", "i", "n", "e", "z">>
  >>

\* create_model.py:82  ['Online', 'Last seen today', 'Last seen yesterday', 'Typing...']
status_options_full ==
  <<
    <<"O", "n", "l", "i", "n", "e">>,
    <<"L", "a", "s", "t", " ", "s", "e", "e", "n", " ", "t", "o", "d", "a", "y">>,
    <<"L", "a", "s", "t", " ", "s", "e", "e", "n", " ", "y", "e", "s", "t", "e", "r", "d", "a", "y">>,
    <<"T", "y", "p", "i", "n", "g", ".", ".", ".">>
  >>

\* create_small_model.py:56-67
training_examples_small ==
  <<
    \* ('John Smith\nOnline\nLast seen today', 'John Smith')
    << <<"J", "o", "h", "n", " ", "S", "m", "i", "t", "h", "\n", "O", "n", "l", "i", "n", "e", "\n", "L", "a", "s", "t", " ", "s", "e", "e", "n", " ", "t", "o", "d", "a", "y">>,
       <<"J", "o", "h", "n", " ", "S", "m", "i", "t", "h">> >>,
    \* ('Maria Garcia\nTyping...\nLast seen yesterday', 'Maria Garcia')
    << <<"M", "a", "r", "i", "a", " ", "G", "a", "r", "c", "i", "a", "\n", "T", "y", "p", "i", "n", "g", ".", ".", ".", "\n", "L", "a", "s", "t", " ", "s", "e", "e", "n", " ", "y", "e", "s", "t", "e", "r", "d", "a", "y">>,
       <<"M", "a", "r", "i", "a", " ", "G", "a", "r", "c", "i", "a">> >>,
    \* ('Dr. Johnson\nOnline\nLast seen 5 minutes ago', 'Dr. Johnson')
    << <<"D", "r", ".", " ", "J", "o", "h", "n", "s", "o", "n", "\n", "O", "n", "l", "i", "n", "e", "\n", "L", "a", "s", "t", " ", "s", "e", "e", "n", " ", "5", " ", "m", "i", "n", "u", "t", "e", "s", " ", "a", "g", "o">>,
       <<"D", "r", ".", " ", "J", "o", "h", "n", "s", "o", "n">> >>,
    \* ('Sarah Wilson\nLast seen today', 'Sarah Wilson')
    << <<"S", "a", "r", "a", "h", " ", "W", "i", "l", "s", "o", "n", "\n", "L", "a", "s", "t", " ", "s", "e", "e", "n", " ", "t", "o", "d", "a", "y">>,
       <<"S", "a", "r", "a", "h", " ", "W", "i", "l", "s", "o", "n">> >>,
    \* ('Mike Chen\nOnline\nLast seen 1 hour ago', 'Mike Chen')
    << <<"M", "i", "k", "e", " ", "C", "h", "e", "n", "\n", "O", "n", "l", "i", "n", "e", "\n", "L", "a", "s", "t", " ", "s", "e", "e", "n", " ", "1", " ", "h", "o", "u", "r", " ", "a", "g", "o">>,
       <<"M", "i", "k", "e", " ", "C", "h", "e", "n">> >>,
    \* ('Anna Rodriguez\nLast seen yesterday', 'Anna Rodriguez')
    << <<"A", "n", "n", "a", " ", "R", "o", "d", "r", "i", "g", "u", "e", "z", "\n", "L", "a", "s", "t", " ", "s", "e", "e", "n", " ", "y", "e", "s", "t", "e", "r", "d", "a", "y">>,
       <<"A", "n", "n", "a", " ", "R", "o", "d", "r", "i", "g", "u", "e", "z">> >>,
    \* ('Prof. Brown\nOnline\nLast seen 30 minutes ago', 'Prof. Brown')
    << <<"P", "r", "o", "f", ".", " ", "B", "r", "o", "w", "n", "\n", "O", "n", "l", "i", "n", "e", "\n", "L", "a", "s", "t", " ", "s", "e", "e", "n", " ", "3", "0", " ", "m", "i", "n", "u", "t", "e", "s", " ", "a", "g", "o">>,
       <<"P", "r", "o", "f", ".", " ", "B", "r", "o", "w", "n">> >>,
    \* ('Lisa Johnson\nTyping...\nLast seen today', 'Lisa Johnson')
    << <<"L", "i", "s", "a", " ", "J", "o", "h", "n", "s", "o", "n", "\n", "T", "y", "p", "i", "n", "g", ".", ".", ".", "\n", "L", "a", "s", "t", " ", "s", "e", "e", "n", " ", "t", "o", "d", "a", "y">>,
       <<"L", "i", "s", "a", " ", "J", "o", "h", "n", "s", "o", "n">> >>,
    \* ('David Kim\nLast seen 2 hours ago', 'David Kim')
    << <<"D", "a", "v", "i", "d", " ", "K", "i", "m", "\n", "L", "a", "s", "t", " ", "s", "e", "e", "n", " ", "2", " ", "h", "o", "u", "r", "s", " ", "a", "g", "o">>,
       <<"D", "a", "v", "i", "d", " ", "K", "i", "m">> >>,
    \* ('Emma Davis\nOnline\nLast seen 15 minutes ago', 'Emma Davis')
    << <<"E", "m", "m", "a", " ", "D", "a", "v", "i", "s", "\n", "O", "n", "l", "i", "n", "e", "\n", "L", "a", "s", "t", " ", "s", "e", "e", "n", " ", "1", "5", " ", "m", "i", "n", "u", "t", "e", "s", " ", "a", "g", "o">>,
       <<"E", "m", "m", "a", " ", "D", "a", "v", "i", "s">> >>
  >>

\* create_small_model.py:70  ['Alex', 'Chris', 'Taylor', 'Jordan', 'Casey', 'Morgan', 'Riley', 'Avery', 'Quinn', 'Blake']
names_small ==
  <<
    <<"A", "l", "e", "x">>,
    <<"C", "h", "r", "i", "s">>,
    <<"T", "a", "y", "l", "o", "r">>,
    <<"J", "o", "r", "d", "a", "n">>,
    <<"C", "a", "s", "e", "y">>,
    <<"M", "o", "r", "g", "a", "n">>,
    <<"R", "i", "l", "e", "y">>,
    <<"A", "v", "e", "r", "y">>,
    <<"Q", "u", "i", "n", "n">>,
    <<"B", "l", "a", "k", "e">>
  >>

\* create_small_model.py:71  ['Anderson', 'Taylor', 'Thomas', 'Jackson', 'White', 'Harris', 'Martin', 'Thompson', 'Garcia', 'Martinez']
surnames_small ==
  <<
    <<"A", "n", "d", "e", "r", "s", "o", "n">>,
    <<"T", "a", "y", "l", "o", "r">>,
    <<"T", "h", "o", "m", "a", "s">>,
    <<"J", "a", "c", "k", "s", "o", "n">>,
    <<"W", "h", "i", "t", "e">>,
    <<"H", "a", "r", "r", "i", "s">>,
    <<"M", "a", "r", "t", "i", "n">>,
    <<"T", "h", "o", "m", "p", "s", "o", "n">>,
    <<"G", "a", "r", "c", "i", "a">>,
    <<"M", "a", "r", "t", "i", "n", "e", "z">>
  >>

\* create_small_model.py:78  ['Online', 'Last seen today', 'Last seen yesterday', 'Typing...']
status_options_small ==
  <<
    <<"O", "n", "l", "i", "n", "e">>,
    <<"L", "a", "s", "t", " ", "s", "e", "e", "n", " ", "t", "o", "d", "a", "y">>,
    <<"L", "a", "s", "t", " ", "s", "e", "e", "n", " ", "y", "e", "s", "t", "e", "r", "d", "a", "y">>,
    <<"T", "y", "p", "i", "n", "g", ".", ".", ".">>
  >>

\* create_tiny_model.py:50-56
training_examples_tiny ==
  <<
    \* ('John Smith\nOnline', 'John Smith')
    << <<"J", "o", "h", "n", " ", "S", "m", "i", "t", "h", "\n", "O", "n", "l", "i", "n", "e">>,
       <<"J", "o", "h", "n", " ", "S", "m", "i", "t", "h">> >>,
    \* ('Maria Garcia\nTyping', 'Maria Garcia')
    << <<"M", "a", "r", "i", "a", " ", "G", "a", "r", "c", "i", "a", "\n", "T", "y", "p", "i", "n", "g">>,
       <<"M", "a", "r", "i", "a", " ", "G", "a", "r", "c", "i", "a">> >>,
    \* ('Dr. Johnson\nOnline', 'Dr. Johnson')
    << <<"D", "r", ".", " ", "J", "o", "h", "n", "s", "o", "n", "\n", "O", "n", "l", "i", "n", "e">>,
       <<"D", "r", ".", " ", "J", "o", "h", "n", "s", "o", "n">> >>,
    \* ('Sarah Wilson\nLast seen', 'Sarah Wilson')
    << <<"S", "a", "r", "a", "h", " ", "W", "i", "l", "s", "o", "n", "\n", "L", "a", "s", "t", " ", "s", "e", "e", "n">>,
       <<"S", "a", "r", "a", "h", " ", "W", "i", "l", "s", "o", "n">> >>,
    \* ('Mike Chen\nOnline', 'Mike Chen')
    << <<"M", "i", "k", "e", " ", "C", "h", "e", "n", "\n", "O", "n", "l", "i", "n", "e">>,
       <<"M", "i", "k", "e", " ", "C", "h", "e", "n">> >>
  >>

\* create_tiny_model.py:59  ['Alex', 'Chris', 'Taylor', 'Jordan', 'Casey']
names_tiny ==
  <<
    <<"A", "l", "e", "x">>,
    <<"C", "h", "r", "i", "s">>,
    <<"T", "a", "y", "l", "o", "r">>,
    <<"J", "o", "r", "d", "a", "n">>,
    <<"C", "a", "s", "e", "y">>
  >>

\* create_tiny_model.py:60  ['Anderson', 'Taylor', 'Thomas', 'Jackson', 'White']
surnames_tiny ==
  <<
    <<"A", "n", "d", "e", "r", "s", "o", "n">>,
    <<"T", "a", "y", "l", "o", "r">>,
    <<"T", "h", "o", "m", "a", "s">>,
    <<"J", "a", "c", "k", "s", "o", "n">>,
    <<"W", "h", "i", "t", "e">>
  >>


\* the full generator with the status line put before the name
generate_training_data_status_first(stream) ==
  LET Example(i) ==
        LET first_name == choice(names_full, Draw(stream, 5 * i))
            last_name  == choice(surnames_full, Draw(stream, 5 * i + 1))
            full_name  == first_name \o <<" ">> \o last_name
            status     == choice(status_options_full, Draw(stream, 5 * i + 2))
            hour       == randint(1, 12, Draw(stream, 5 * i + 3))
            minute     == randint(10, 60, Draw(stream, 5 * i + 4))
            text       == status \o <<"\n">> \o full_name
                            \o <<"\n", "L", "a", "s", "t", " ", "s", "e", "e", "n",
                                 " ", "t", "o", "d", "a", "y", " ", "a", "t", " ">>
                            \o FormatInt(hour) \o <<":">> \o Format02d(minute)
                            \o <<" ", "P", "M">>
        IN  <<text, full_name>>
  IN  training_examples_full \o [i \in 1..50 |-> Example(i - 1)]

\* create_model.py: 50 synthetic examples after the hand-written ones; an
\* iteration draws the name, the surname, the status, the hour, the minute
generate_training_data(stream) ==
  LET Example(i) ==
        LET first_name == choice(names_full, Draw(stream, 5 * i))
            last_name  == choice(surnames_full, Draw(stream, 5 * i + 1))
            full_name  == first_name \o <<" ">> \o last_name
            status     == choice(status_options_full, Draw(stream, 5 * i + 2))
            hour       == randint(1, 12, Draw(stream, 5 * i + 3))
            minute     == randint(10, 60, Draw(stream, 5 * i + 4))
            text       == full_name \o <<"\n">> \o status
                            \o <<"\n", "L", "a", "s", "t", " ", "s", "e", "e", "n",
                                 " ", "t", "o", "d", "a", "y", " ", "a", "t", " ">>
                            \o FormatInt(hour) \o <<":">> \o Format02d(minute)
                            \o <<" ", "P", "M">>
        IN  <<text, full_name>>
  IN  training_examples_full \o [i \in 1..50 |-> Example(i - 1)]

\* create_small_model.py: 20 synthetic examples; an iteration draws the name,
\* the surname and the status
generate_simple_training_data(stream) ==
  LET Example(i) ==
        LET first_name == choice(names_small, Draw(stream, 3 * i))
            last_name  == choice(surnames_small, Draw(stream, 3 * i + 1))
            full_name  == first_name \o <<" ">> \o last_name
            status     == choice(status_options_small, Draw(stream, 3 * i + 2))
            text       == full_name \o <<"\n">> \o status
                            \o <<"\n", "L", "a", "s", "t", " ", "s", "e", "e", "n",
                                 " ", "t", "o", "d", "a", "y">>
        IN  <<text, full_name>>
  IN  training_examples_small \o [i \in 1..20 |-> Example(i - 1)]

\* the tiny generator joining name and surname without the space
generate_tiny_training_data_unspaced(stream) ==
  LET Example(i) ==
        LET first_name == choice(names_tiny, Draw(stream, 2 * i))
            last_name  == choice(surnames_tiny, Draw(stream, 2 * i + 1))
            full_name  == first_name \o last_name
            text       == full_name \o <<"\n", "O", "n", "l", "i", "n", "e">>
        IN  <<text, full_name>>
  IN  training_examples_tiny \o [i \in 1..10 |-> Example(i - 1)]

\* create_tiny_model.py: 10 synthetic examples; an iteration draws the name
\* and the surname
generate_tiny_training_data(stream) ==
  LET Example(i) ==
        LET first_name == choice(names_tiny, Draw(stream, 2 * i))
            last_name  == choice(surnames_tiny, Draw(stream, 2 * i + 1))
            full_name  == first_name \o <<" ">> \o last_name
            text       == full_name \o <<"\n", "O", "n", "l", "i", "n", "e">>
        IN  <<text, full_name>>
  IN  training_examples_tiny \o [i \in 1..10 |-> Example(i - 1)]

----------------------------------------------------------------------------
(* The dataset builders *)

\* The float32 nearest to a non-negative integer (ties to even): integers up
\* to 2^24 are kept exactly, larger ones are rounded to a multiple of the
\* spacing of their binade.
RECURSIVE Float32Spacing(_, _)
Float32Spacing(v, spacing) ==
  IF v < 16777216 * spacing THEN spacing
                            ELSE Float32Spacing(v, 2 * spacing)

Float32(v) ==
  LET spacing == Float32Spacing(v, 1)
      low     == (v \div spacing) * spacing
      rem     == v - low
  IN  IF 2 * rem < spacing THEN low
      ELSE IF 2 * rem > spacing THEN low + spacing
      ELSE IF (low \div spacing) % 2 = 0 THEN low
      ELSE low + spacing

\* np.array(rows, dtype=np.float32) of a list of equally long lists
np_array_float32(rows) ==
  [i \in 1..Len(rows) |-> [j \in 1..Len(rows[i]) |-> Float32(rows[i][j])]]

\* create_model.py, create_training_data: the loop over training_examples and
\* the two arrays it returns
create_training_data_full(examples) ==
  [ X |-> np_array_float32(
            [i \in 1..Len(examples) |->
               preprocess_text(examples[i][1], DEFAULT_TEXT_MAX_LENGTH)]),
    y |-> np_array_float32(
            [i \in 1..Len(examples) |->
               preprocess_contact_name(examples[i][2], DEFAULT_NAME_MAX_LENGTH)]) ]

\* create_small_model.py, create_training_data
create_training_data_small(examples) ==
  [ X |-> np_array_float32(
            [i \in 1..Len(examples) |->
               preprocess_text_simple(examples[i][1], DEFAULT_TEXT_MAX_LENGTH)]),
    y |-> np_array_float32(
            [i \in 1..Len(examples) |->
               preprocess_contact_name_simple(examples[i][2],
                                              DEFAULT_NAME_MAX_LENGTH)]) ]

\* the tiny builder encoding the text, not the name, as the label
create_training_data_tiny_text_as_label(examples) ==
  [ X |-> np_array_float32(
            [i \in 1..Len(examples) |->
               preprocess_text_tiny(examples[i][1], DEFAULT_TEXT_MAX_LENGTH)]),
    y |-> np_array_float32(
            [i \in 1..Len(examples) |->
               preprocess_contact_name_tiny(examples[i][1],
                                            DEFAULT_NAME_MAX_LENGTH)]) ]

\* create_tiny_model.py, create_training_data
create_training_data_tiny(examples) ==
  [ X |-> np_array_float32(
            [i \in 1..Len(examples) |->
               preprocess_text_tiny(examples[i][1], DEFAULT_TEXT_MAX_LENGTH)]),
    y |-> np_array_float32(
            [i \in 1..Len(examples) |->
               preprocess_contact_name_tiny(examples[i][2],
                                            DEFAULT_NAME_MAX_LENGTH)]) ]

----------------------------------------------------------------------------
(* The model definitions *)

MAX_INPUT_LENGTH == 200

MAX_OUTPUT_LENGTH == 50

VOCAB_SIZE_full == 30000

VOCAB_SIZE_small == 256

VOCAB_SIZE_tiny == 128

NoModel == [name |-> "unbound", input_shape |-> <<>>, output_shape |-> <<>>,
            state |-> "unbound"]

create_contact_detection_model ==
  [name |-> "contact_detection_model",
   input_shape |-> <<MAX_INPUT_LENGTH>>,
   output_shape |-> <<MAX_OUTPUT_LENGTH, VOCAB_SIZE_full>>,
   state |-> "built"]

create_small_contact_detection_model ==
  [name |-> "small_contact_detection_model",
   input_shape |-> <<MAX_INPUT_LENGTH>>,
   output_shape |-> <<MAX_OUTPUT_LENGTH, VOCAB_SIZE_small>>,
   state |-> "built"]

create_tiny_contact_detection_model ==
  [name |-> "tiny_contact_detection_model",
   input_shape |-> <<MAX_INPUT_LENGTH>>,
   output_shape |-> <<MAX_OUTPUT_LENGTH, VOCAB_SIZE_tiny>>,
   state |-> "built"]

----------------------------------------------------------------------------
(* One run of main() of one of the three scripts (specification Spec) *)

Variants == {"full", "small", "tiny"}

\* what each script's train function calls
CreateModelOf(v) ==
  CASE v = "full"  -> create_contact_detection_model
    [] v = "small" -> create_small_contact_detection_model
    [] v = "tiny"  -> create_tiny_contact_detection_model

GenerateOf(v, stream) ==
  CASE v = "full"  -> generate_training_data(stream)
    [] v = "small" -> generate_simple_training_data(stream)
    [] v = "tiny"  -> generate_tiny_training_data(stream)

CreateTrainingDataOf(v, examples) ==
  CASE v = "full"  -> create_training_data_full(examples)
    [] v = "small" -> create_training_data_small(examples)
    [] v = "tiny"  -> create_training_data_tiny(examples)

\* the variables of an encoder call are at rest while a script runs
NoCall ==
  /\ callee = "none"
  /\ arg_text = <<>>
  /\ arg_max_length = 0
  /\ arg_defaulted = FALSE
  /\ call_pc = "no call"
  /\ ret = <<>>

RunInit ==
  /\ variant \in Variants
  /\ pc = "main"
  /\ dir_exists \in BOOLEAN
  /\ artifact \in (IF dir_exists THEN {"absent", "earlier artifact"}
                                 ELSE {"absent"})
  /\ artifact_before = artifact
  /\ training_examples = <<>>
  /\ X_train = <<>>
  /\ y_train = <<>>
  /\ model = NoModel
  /\ tflite_model = "unbound"
  /\ stdout = <<>>
  /\ steps = <<>>
  /\ failed_at = "none"
  /\ NoCall

\* a step of the run completes and control moves on
Completes(step, next) ==
  /\ steps' = Append(steps, step)
  /\ pc' = next
  /\ UNCHANGED <<variant, artifact_before, failed_at>>
  /\ UNCHANGED enc_vars

\* a collaborator raises: nothing handles it, the process ends
Raises(step) ==
  /\ failed_at' = step
  /\ pc' = "aborted"
  /\ UNCHANGED <<variant, artifact_before, steps>>
  /\ UNCHANGED enc_vars

\* main: the banner and os.makedirs(output_dir, exist_ok=True)
Makedirs ==
  /\ pc = "main"
  /\ stdout' = stdout \o <<"banner">>
  /\ \/ /\ dir_exists' = TRUE
        /\ Completes("makedirs", "create_model")
     \/ /\ ~dir_exists
        /\ dir_exists' = FALSE
        /\ Raises("makedirs")
  /\ UNCHANGED <<artifact, training_examples, X_train, y_train, model,
                 tflite_model>>

\* train_model: the model is created and summarised
CreateModel ==
  /\ pc = "create_model"
  /\ stdout' = stdout \o <<"Creating model...">>
  /\ \/ /\ model' = CreateModelOf(variant)
        /\ Completes("create_model", "generate")
     \/ /\ model' = model
        /\ Raises("create_model")
  /\ UNCHANGED <<dir_exists, artifact, training_examples, X_train, y_train,
                 tflite_model>>

\* create_training_data: the example generator is called
Generate ==
  /\ pc = "generate"
  /\ stdout' = stdout \o <<"Generating training data...">>
  /\ \E stream \in Streams :
       training_examples' = GenerateOf(variant, stream)
  /\ Completes("generate", "build")
  /\ UNCHANGED <<dir_exists, artifact, X_train, y_train, model, tflite_model>>

\* create_training_data: every example is encoded, the arrays are returned
BuildDataset ==
  /\ pc = "build"
  /\ LET arrays == CreateTrainingDataOf(variant, training_examples)
     IN  /\ X_train' = arrays.X
         /\ y_train' = arrays.y
  /\ Completes("build", "compile")
  /\ UNCHANGED <<dir_exists, artifact, training_examples, model, tflite_model,
                 stdout>>

\* train_model: the shapes are printed and the model is compiled; the list of
\* examples went out of scope when create_training_data returned
Compile ==
  /\ pc = "compile"
  /\ training_examples' = <<>>
  /\ stdout' = stdout \o <<"Training data shape">>
  /\ model' = [model EXCEPT !.state = "compiled"]
  /\ Completes("compile", "fit")
  /\ UNCHANGED <<dir_exists, artifact, X_train, y_train, tflite_model>>

\* model.fit wrapped in a retry that starts over from the data generation
Fit_retries ==
  /\ pc = "fit"
  /\ stdout' = stdout \o <<"Training model...">>
  /\ \/ /\ model' = [model EXCEPT !.state = "trained"]
        /\ X_train' = <<>>
        /\ y_train' = <<>>
        /\ Completes("fit", "convert")
     \/ /\ X_train' = <<>>
        /\ y_train' = <<>>
        /\ model' = model
        /\ pc' = "generate"
        /\ UNCHANGED <<variant, artifact_before, failed_at, steps>>
        /\ UNCHANGED enc_vars
  /\ UNCHANGED <<dir_exists, artifact, training_examples, tflite_model>>

\* train_model: model.fit, then the return of the trained model
Fit ==
  /\ pc = "fit"
  /\ stdout' = stdout \o <<"Training model...">>
  /\ \/ /\ model' = [model EXCEPT !.state = "trained"]
        /\ X_train' = <<>>
        /\ y_train' = <<>>
        /\ Completes("fit", "convert")
     \/ /\ UNCHANGED <<model, X_train, y_train>>
        /\ Raises("fit")
  /\ UNCHANGED <<dir_exists, artifact, training_examples, tflite_model>>

\* the conversion run inside the with block, after open(output_path, 'wb')
Convert_opens_first ==
  /\ pc = "convert"
  /\ stdout' = stdout \o <<"Converting model...">>
  /\ artifact' = "empty"
  /\ \/ /\ tflite_model' = "tflite bytes"
        /\ Completes("convert", "open")
     \/ /\ tflite_model' = tflite_model
        /\ Raises("convert")
  /\ UNCHANGED <<dir_exists, training_examples, X_train, y_train, model>>

\* convert_to_tflite: the converter is built and converter.convert() runs
Convert ==
  /\ pc = "convert"
  /\ stdout' = stdout \o <<"Converting model...">>
  /\ \/ /\ tflite_model' = "tflite bytes"
        /\ Completes("convert", "open")
     \/ /\ tflite_model' = tflite_model
        /\ Raises("convert")
  /\ UNCHANGED <<dir_exists, artifact, training_examples, X_train, y_train,
                 model>>

\* convert_to_tflite: open(output_path, 'wb') creates or truncates the file
OpenArtifact ==
  /\ pc = "open"
  /\ \/ /\ artifact' = "empty"
        /\ Completes("open", "write")
     \/ /\ artifact' = artifact
        /\ Raises("open")
  /\ UNCHANGED <<dir_exists, training_examples, X_train, y_train, model,
                 tflite_model, stdout>>

\* convert_to_tflite: f.write(tflite_model) and the end of the with block
WriteArtifact ==
  /\ pc = "write"
  /\ \/ /\ artifact' = tflite_model
        /\ Completes("write", "report")
     \/ /\ artifact' \in {"empty", "partial"}
        /\ Raises("write")
  /\ UNCHANGED <<dir_exists, training_examples, X_train, y_train, model,
                 tflite_model, stdout>>

\* convert_to_tflite reports the file, main reports success and returns
Report ==
  /\ pc = "report"
  /\ stdout' = stdout \o <<"Model saved to", "Model size",
                           "completed successfully", "saved to">>
  /\ Completes("report", "exited")
  /\ UNCHANGED <<dir_exists, artifact, training_examples, X_train, y_train,
                 model, tflite_model>>

RunNext ==
  \/ Makedirs
  \/ CreateModel
  \/ Generate
  \/ BuildDataset
  \/ Compile
  \/ Fit
  \/ Convert
  \/ OpenArtifact
  \/ WriteArtifact
  \/ Report

Spec == RunInit /\ [][RunNext]_vars

----------------------------------------------------------------------------
(* One call of an encoder, on inputs drawn from bounded sets *)

\* longest argument string of a modelled encoder call
MaxTextLen == 2

\* largest explicit max_length of a modelled encoder call
MaxLengthArg == 5

\* the characters of the argument strings: plain ASCII and the code points
\* around each variant's ceiling (127/128, 255/256, 8364, 30000)
EncoderChars ==
  {"A", "B", "U+007F", "U+0080", "U+00FF", "U+0100", "U+20AC", "U+7530"}

Texts == UNION {[1..k -> EncoderChars] : k \in 0..MaxTextLen}

TextCallees ==
  {"preprocess_text", "preprocess_text_simple", "preprocess_text_tiny"}

NameCallees ==
  {"preprocess_contact_name", "preprocess_contact_name_simple",
   "preprocess_contact_name_tiny"}

Callees == TextCallees \cup NameCallees

\* the value max_length is bound to when the call omits it
DefaultMaxLength(f) ==
  IF f \in TextCallees THEN DEFAULT_TEXT_MAX_LENGTH
                       ELSE DEFAULT_NAME_MAX_LENGTH

\* the variables of a run are at rest while an encoder is called on its own
NoRun ==
  /\ variant = "none"
  /\ pc = "not running"
  /\ dir_exists = FALSE
  /\ artifact = "absent"
  /\ artifact_before = "absent"
  /\ training_examples = <<>>
  /\ X_train = <<>>
  /\ y_train = <<>>
  /\ model = NoModel
  /\ tflite_model = "unbound"
  /\ stdout = <<>>
  /\ steps = <<>>
  /\ failed_at = "none"

EncInit ==
  /\ callee \in Callees
  /\ arg_text \in Texts
  /\ arg_defaulted \in BOOLEAN
  /\ arg_max_length \in
       IF arg_defaulted THEN {DefaultMaxLength(callee)}
                        ELSE (-1)..MaxLengthArg
  /\ call_pc = "call"
  /\ ret = <<>>
  /\ NoRun

Returns(value) ==
  /\ ret' = value
  /\ call_pc' = "returned"
  /\ UNCHANGED <<callee, arg_text, arg_max_length, arg_defaulted>>
  /\ UNCHANGED run_vars

Call_preprocess_text ==
  /\ call_pc = "call"
  /\ callee = "preprocess_text"
  /\ Returns(preprocess_text(arg_text, arg_max_length))

Call_preprocess_contact_name ==
  /\ call_pc = "call"
  /\ callee = "preprocess_contact_name"
  /\ Returns(preprocess_contact_name(arg_text, arg_max_length))

Call_preprocess_text_simple ==
  /\ call_pc = "call"
  /\ callee = "preprocess_text_simple"
  /\ Returns(preprocess_text_simple(arg_text, arg_max_length))

Call_preprocess_contact_name_simple ==
  /\ call_pc = "call"
  /\ callee = "preprocess_contact_name_simple"
  /\ Returns(preprocess_contact_name_simple(arg_text, arg_max_length))

Call_preprocess_text_tiny ==
  /\ call_pc = "call"
  /\ callee = "preprocess_text_tiny"
  /\ Returns(preprocess_text_tiny(arg_text, arg_max_length))

Call_preprocess_contact_name_tiny ==
  /\ call_pc = "call"
  /\ callee = "preprocess_contact_name_tiny"
  /\ Returns(preprocess_contact_name_tiny(arg_text, arg_max_length))

EncNext ==
  \/ Call_preprocess_text
  \/ Call_preprocess_contact_name
  \/ Call_preprocess_text_simple
  \/ Call_preprocess_contact_name_simple
  \/ Call_preprocess_text_tiny
  \/ Call_preprocess_contact_name_tiny

SpecEncoder == EncInit /\ [][EncNext]_vars

----------------------------------------------------------------------------
(* Claims about the encoders (specification SpecEncoder) *)

\* the clamp ceiling the specification gives for each variant's encoders
max_code(f) ==
  CASE f \in {"preprocess_text", "preprocess_contact_name"} -> 29999
    [] f \in {"preprocess_text_simple", "preprocess_contact_name_simple"} -> 255
    [] f \in {"preprocess_text_tiny", "preprocess_contact_name_tiny"} -> 127

\* the encoder named f applied to (s, n)
Encoder(f, s, n) ==
  CASE f = "preprocess_text" -> preprocess_text(s, n)
    [] f = "preprocess_contact_name" -> preprocess_contact_name(s, n)
    [] f = "preprocess_text_simple" -> preprocess_text_simple(s, n)
    [] f = "preprocess_contact_name_simple" -> preprocess_contact_name_simple(s, n)
    [] f = "preprocess_text_tiny" -> preprocess_text_tiny(s, n)
    [] f = "preprocess_contact_name_tiny" -> preprocess_contact_name_tiny(s, n)

\* the call has returned and its max_length was not negative
ReturnedNonNegative == call_pc = "returned" /\ arg_max_length >= 0

\* the number of characters of the argument the encoder keeps
Kept == Min2(Len(arg_text), arg_max_length)

\* C1: for every input string (the empty one and over-length ones included)
\* and every non-negative max_length, every encoder returns a sequence of
\* exactly max_length elements.
C1_LengthIsMaxLength ==
  ReturnedNonNegative =>
    /\ DOMAIN ret = 1..arg_max_length
    /\ Len(ret) = arg_max_length

\* C1 happens: an over-length string was cut to a non-empty result
C1_Witness ==
  /\ ReturnedNonNegative
  /\ Len(arg_text) > arg_max_length
  /\ arg_max_length > 0
  /\ Len(ret) = arg_max_length

\* C2: the encoded value at every kept position is min(code point, max_code),
\* so in [0, max_code]; a character above max_code encodes to max_code
\* exactly; in the tiny variant the euro sign with max_length 1 gives [127].
C2_KeptAreClamped ==
  ReturnedNonNegative =>
    /\ \A i \in 1..Kept :
         /\ ret[i] = Min2(ord[arg_text[i]], max_code(callee))
         /\ ret[i] \in 0..max_code(callee)
         /\ ord[arg_text[i]] > max_code(callee) => ret[i] = max_code(callee)
    /\ ( /\ callee = "preprocess_text_tiny"
         /\ arg_text = <<"U+20AC">>
         /\ arg_max_length = 1 ) => ret = <<127>>

\* C2 happens: the tiny text encoder was given the euro sign, max_length 1
C2_Witness ==
  /\ call_pc = "returned"
  /\ callee = "preprocess_text_tiny"
  /\ arg_text = <<"U+20AC">>
  /\ arg_max_length = 1
  /\ ret = <<127>>

\* C3: for a string shorter than max_length the positions from len(s) on are
\* zero and the positions before hold the clamped codes in order; the empty
\* string gives max_length zeros; tiny "AB" with max_length 5 gives
\* [65, 66, 0, 0, 0].
C3_ShortIsZeroPadded ==
  (ReturnedNonNegative /\ Len(arg_text) < arg_max_length) =>
    /\ \A i \in (Len(arg_text) + 1)..arg_max_length : ret[i] = 0
    /\ \A i \in 1..Len(arg_text) :
         ret[i] = Min2(ord[arg_text[i]], max_code(callee))
    /\ arg_text = <<>> => ret = [i \in 1..arg_max_length |-> 0]
    /\ ( /\ callee = "preprocess_text_tiny"
         /\ arg_text = <<"A", "B">>
         /\ arg_max_length = 5 ) => ret = <<65, 66, 0, 0, 0>>

\* C3 happens: the tiny text encoder was given "AB" and max_length 5
C3_Witness ==
  /\ call_pc = "returned"
  /\ callee = "preprocess_text_tiny"
  /\ arg_text = <<"A", "B">>
  /\ arg_max_length = 5
  /\ ret = <<65, 66, 0, 0, 0>>

\* C4: for a string longer than max_length the result depends only on the
\* first max_length characters: every string with the same first max_length
\* characters encodes to the same sequence, and the call returns a list (the
\* over-length input is cut, no error is raised).
C4_OnlyThePrefixCounts ==
  (ReturnedNonNegative /\ Len(arg_text) > arg_max_length) =>
    /\ \A rest \in Texts :
         Encoder(callee, SubSeq(arg_text, 1, arg_max_length) \o rest,
                 arg_max_length) = ret
    /\ Len(ret) = arg_max_length

\* C4 happens: a two-character string was encoded with max_length 1
C4_Witness ==
  /\ call_pc = "returned"
  /\ arg_max_length = 1
  /\ Len(arg_text) = 2
  /\ arg_text[1] # arg_text[2]
  /\ Len(ret) = 1

----------------------------------------------------------------------------
(* Claims about the dataset and the generators (specification Spec) *)

\* the clamp ceiling the specification gives for each variant
VariantMaxCode(v) ==
  CASE v = "full" -> 29999 [] v = "small" -> 255 [] v = "tiny" -> 127

\* the encoding of string s at length n under ceiling cap, position by
\* position: the clamped code of the character there, zero past the string
Encoding(s, n, cap) ==
  [j \in 1..n |-> IF j <= Len(s) THEN Min2(ord[s[j]], cap) ELSE 0]

\* create_training_data is about to return: its list and its arrays are bound
DatasetBuilt == pc = "compile"

\* C5: in every variant create_training_data returns X and y with as many
\* rows as the generator returned examples, every row of X 200 long and every
\* row of y 50 long, row i of X and of y being the encodings of the text and
\* the label of example i (same order, nothing dropped, moved or merged).
C5_DatasetIsAligned ==
  DatasetBuilt =>
    /\ Len(X_train) = Len(training_examples)
    /\ Len(y_train) = Len(training_examples)
    /\ \A i \in 1..Len(training_examples) :
         /\ Len(X_train[i]) = 200
         /\ Len(y_train[i]) = 50
         /\ X_train[i] =
              Encoding(training_examples[i][1], 200, VariantMaxCode(variant))
         /\ y_train[i] =
              Encoding(training_examples[i][2], 50, VariantMaxCode(variant))

\* C5 happens: the full variant's 60 examples were encoded, two neighbouring
\* synthetic examples differing
C5_Witness ==
  /\ DatasetBuilt
  /\ variant = "full"
  /\ Len(X_train) = 60
  /\ Len(y_train) = 60
  /\ training_examples[11] # training_examples[12]
  /\ X_train[11] # X_train[12]
  /\ y_train[11] # y_train[12]

\* the generator has returned and its list is still in scope
Generated == pc \in {"build", "compile"}

Spaces(label) == {i \in 1..Len(label) : label[i] = " "}

\* two non-empty tokens separated by the only space of the label
TwoTokens(label) ==
  /\ Len(label) > 0
  /\ Cardinality(Spaces(label)) = 1
  /\ label[1] # " "
  /\ label[Len(label)] # " "

\* C7: the tiny generator returns at least 15 examples, the 5 fixed ones
\* followed by 10 synthetic ones, whatever the draws; every label is
\* non-empty and is two non-empty tokens separated by exactly one space.
C7_TinyExamples ==
  (Generated /\ variant = "tiny") =>
    /\ Len(training_examples) >= 15
    /\ Len(training_examples_tiny) = 5
    /\ SubSeq(training_examples, 1, 5) = training_examples_tiny
    /\ Len(training_examples) - 5 >= 10
    /\ \A i \in 1..Len(training_examples) :
         TwoTokens(training_examples[i][2])

\* C7 happens: the tiny generator returned, two synthetic labels differing
C7_Witness ==
  /\ Generated
  /\ variant = "tiny"
  /\ Len(training_examples) = 15
  /\ training_examples[6][2] # training_examples[15][2]

Range(seq) == {seq[i] : i \in 1..Len(seq)}

FixedExamples(v) ==
  CASE v = "full"  -> training_examples_full
    [] v = "small" -> training_examples_small
    [] v = "tiny"  -> training_examples_tiny

SyntheticCount(v) ==
  CASE v = "full" -> 50 [] v = "small" -> 20 [] v = "tiny" -> 10

NamePool(v) ==
  CASE v = "full"  -> Range(names_full)
    [] v = "small" -> Range(names_small)
    [] v = "tiny"  -> Range(names_tiny)

SurnamePool(v) ==
  CASE v = "full"  -> Range(surnames_full)
    [] v = "small" -> Range(surnames_small)
    [] v = "tiny"  -> Range(surnames_tiny)

Statuses ==
  { <<"O", "n", "l", "i", "n", "e">>,
    <<"L", "a", "s", "t", " ", "s", "e", "e", "n", " ", "t", "o", "d", "a", "y">>,
    <<"L", "a", "s", "t", " ", "s", "e", "e", "n", " ",
      "y", "e", "s", "t", "e", "r", "d", "a", "y">>,
    <<"T", "y", "p", "i", "n", "g", ".", ".", ".">> }

LastSeenToday ==
  <<"L", "a", "s", "t", " ", "s", "e", "e", "n", " ", "t", "o", "d", "a", "y">>

\* the hours 1 to 11 and the minutes 10 to 59 as printed
Hours ==
  {<<d>> : d \in {"1", "2", "3", "4", "5", "6", "7", "8", "9"}}
    \cup {<<"1", "0">>, <<"1", "1">>}

Minutes ==
  {<<a, b>> : a \in {"1", "2", "3", "4", "5"},
              b \in {"0", "1", "2", "3", "4", "5", "6", "7", "8", "9"}}

\* what follows "<label>\n" in a synthetic text of each variant
StatusTemplates(v) ==
  CASE v = "full" ->
         {st \o <<"\n">> \o LastSeenToday \o <<" ", "a", "t", " ">> \o h
             \o <<":">> \o m \o <<" ", "P", "M">> :
            st \in Statuses, h \in Hours, m \in Minutes}
    [] v = "small" -> {st \o <<"\n">> \o LastSeenToday : st \in Statuses}
    [] v = "tiny"  -> {<<"O", "n", "l", "i", "n", "e">>}

StatusTemplates_full == StatusTemplates("full")

StatusTemplates_small == StatusTemplates("small")

StatusTemplates_tiny == StatusTemplates("tiny")

TemplatesOf(v) ==
  CASE v = "full"  -> StatusTemplates_full
    [] v = "small" -> StatusTemplates_small
    [] v = "tiny"  -> StatusTemplates_tiny

\* a synthetic example of variant v: name, space, surname as the label, and
\* a text that is the label, a line break and the variant's status template
IsSynthetic(v, example) ==
  LET text  == example[1]
      label == example[2]
  IN  /\ \E n \in NamePool(v), s \in SurnamePool(v) : label = n \o <<" ">> \o s
      /\ Len(text) > Len(label)
      /\ SubSeq(text, 1, Len(label) + 1) = label \o <<"\n">>
      /\ SubSeq(text, Len(label) + 2, Len(text)) \in TemplatesOf(v)

\* C8: in every variant the generator returns the fixed examples first, then
\* exactly N synthetic ones (50 full, 20 small, 10 tiny); whatever the draws,
\* a synthetic label is a name of the pool, one space and a surname of the
\* pool, and its text starts with the label, a line break and the status
\* template.
C8_FixedThenSynthetic ==
  Generated =>
    LET fixed == FixedExamples(variant)
    IN  /\ Len(training_examples) = Len(fixed) + SyntheticCount(variant)
        /\ SubSeq(training_examples, 1, Len(fixed)) = fixed
        /\ \A i \in (Len(fixed) + 1)..Len(training_examples) :
             IsSynthetic(variant, training_examples[i])

\* C8 happens: the full generator returned its 10 + 50 examples, the first
\* synthetic one at a two-digit hour
C8_Witness ==
  /\ Generated
  /\ variant = "full"
  /\ Len(training_examples) = 60
  /\ \E h \in {<<"1", "0">>, <<"1", "1">>} :
       LET text == training_examples[11][1]
       IN  SubSeq(text, Len(text) - 7, Len(text) - 6) = h

----------------------------------------------------------------------------
(* Claims about the run of main() (specification Spec) *)

\* the steps the pipeline is described by, in the order it is described in;
\* the artifact write is the opening of the file and the writing of the bytes
PipelineOrder == <<"generate", "build", "fit", "convert", "open", "write">>

PipelineSteps == Range(PipelineOrder)

Position(step) == CHOOSE k \in 1..Len(PipelineOrder) : PipelineOrder[k] = step

\* C9: a run is one straight-line pipeline executed once: example
\* generation, dataset building, training, conversion, artifact write, in
\* that order; the artifact is written at most once and only after training
\* and conversion have completed; no step is retried or entered again.
C9_StraightLineOnce ==
  /\ \A i, j \in 1..Len(steps) : i < j => steps[i] # steps[j]
  /\ \A i, j \in 1..Len(steps) :
       (i < j /\ steps[i] \in PipelineSteps /\ steps[j] \in PipelineSteps)
         => Position(steps[i]) < Position(steps[j])
  /\ \A step \in PipelineSteps :
       step \in Range(steps) =>
         \A k \in 1..(Position(step) - 1) : PipelineOrder[k] \in Range(steps)
  /\ (artifact # artifact_before \/ pc \in {"write", "report", "exited"}) =>
       /\ "fit" \in Range(steps)
       /\ "convert" \in Range(steps)
       /\ model.state = "trained"
       /\ tflite_model # "unbound"
  /\ pc = "exited" =>
       /\ artifact = tflite_model
       /\ failed_at = "none"

\* C9 happens: a run went through every step and wrote the artifact
C9_Witness ==
  /\ pc = "exited"
  /\ artifact = "tflite bytes"
  /\ steps = <<"makedirs", "create_model", "generate", "build", "compile",
               "fit", "convert", "open", "write", "report">>

\* C10: when the Trainer or the conversion fails the run aborts there: no
\* later step executes, the success message is never printed, the artifact
\* file is neither created, truncated nor overwritten (one left by an earlier
\* run is unchanged), and the output directory has been created.
C10_FailureLeavesArtifact ==
  failed_at \in {"fit", "convert"} =>
    /\ pc = "aborted"
    /\ steps =
         (IF failed_at = "fit"
            THEN <<"makedirs", "create_model", "generate", "build", "compile">>
            ELSE <<"makedirs", "create_model", "generate", "build", "compile",
                   "fit">>)
    /\ "completed successfully" \notin Range(stdout)
    /\ "Model saved to" \notin Range(stdout)
    /\ artifact = artifact_before
    /\ dir_exists

\* C10 happens: the conversion failed in a run that found an earlier artifact
C10_Witness ==
  /\ failed_at = "convert"
  /\ pc = "aborted"
  /\ artifact_before = "earlier artifact"
  /\ artifact = "earlier artifact"
  /\ model.state = "trained"

----------------------------------------------------------------------------
(* The encoders' ceiling and the model's vocabulary (specification SpecAll) *)

SpecAll == (EncInit \/ RunInit) /\ [][EncNext \/ RunNext]_vars

VocabSize(v) ==
  CASE v = "full"  -> VOCAB_SIZE_full
    [] v = "small" -> VOCAB_SIZE_small
    [] v = "tiny"  -> VOCAB_SIZE_tiny

CalleeVariant(f) ==
  CASE f \in {"preprocess_text", "preprocess_contact_name"} -> "full"
    [] f \in {"preprocess_text_simple", "preprocess_contact_name_simple"} -> "small"
    [] f \in {"preprocess_text_tiny", "preprocess_contact_name_tiny"} -> "tiny"

\* C6: in every variant the largest code the encoders emit is the vocabulary
\* size minus one (29999 for 30000, 255 for 256, 127 for 128), so every
\* element of every label row handed to the Trainer is a class index of
\* [0, V-1] for the model's (50, V) output, whatever the label text is.
C6_CodesAreClassIndices ==
  /\ call_pc = "returned" =>
       LET V == VocabSize(CalleeVariant(callee))
       IN  /\ max_code(callee) = V - 1
           /\ \A i \in DOMAIN ret : ret[i] \in 0..(V - 1)
           /\ \A i \in 1..Min2(Len(ret), Len(arg_text)) :
                ord[arg_text[i]] >= V - 1 => ret[i] = V - 1
  /\ pc = "fit" =>
       LET V == VocabSize(variant)
       IN  /\ model.output_shape = <<50, V>>
           /\ Len(y_train) > 0
           /\ \A i \in 1..Len(y_train) :
                /\ Len(y_train[i]) = model.output_shape[1]
                /\ \A j \in 1..Len(y_train[i]) : y_train[i][j] \in 0..(V - 1)

\* C6 happens: the small label encoder, called with its default length, met a
\* character whose code is the vocabulary size and emitted 255
C6_Witness ==
  /\ call_pc = "returned"
  /\ callee = "preprocess_contact_name_simple"
  /\ arg_defaulted
  /\ arg_text = <<"U+0100">>
  /\ Len(ret) = 50
  /\ ret[1] = 255

----------------------------------------------------------------------------
(* The encoders compared with each other (specification SpecEncoder) *)

\* the other encoder of the same script
Sibling(f) ==
  CASE f = "preprocess_text" -> "preprocess_contact_name"
    [] f = "preprocess_contact_name" -> "preprocess_text"
    [] f = "preprocess_text_simple" -> "preprocess_contact_name_simple"
    [] f = "preprocess_contact_name_simple" -> "preprocess_text_simple"
    [] f = "preprocess_text_tiny" -> "preprocess_contact_name_tiny"
    [] f = "preprocess_contact_name_tiny" -> "preprocess_text_tiny"

\* every character of s has a code point of at most 127
AllAscii(s) == \A i \in 1..Len(s) : ord[s[i]] <= 127

\* C11: within a variant the text encoder and the label encoder are the same
\* function apart from the default max_length (200 against 50): on the same
\* string and the same max_length they return the same sequence; across
\* variants only the ceiling differs, so all encoders agree on every string
\* whose code points are all at most 127.
C11_EncodersAgree ==
  call_pc = "returned" =>
    /\ ret = Encoder(Sibling(callee), arg_text, arg_max_length)
    /\ arg_defaulted =>
         arg_max_length = (IF callee \in TextCallees THEN 200 ELSE 50)
    /\ AllAscii(arg_text) =>
         \A f \in Callees : Encoder(f, arg_text, arg_max_length) = ret

\* C11 happens: the full label encoder was given a string holding a
\* character that the two other variants clamp, after one of plain ASCII
C11_Witness ==
  /\ call_pc = "returned"
  /\ callee = "preprocess_contact_name"
  /\ arg_text = <<"A", "U+20AC">>
  /\ arg_max_length = 5
  /\ ret = <<65, 8364, 0, 0, 0>>
  /\ ret = Encoder("preprocess_text", arg_text, arg_max_length)
  /\ ret # Encoder("preprocess_contact_name_tiny", arg_text, arg_max_length)

====
